---- MODULE Spec2Model ----
(***************************************************************************)
(* Window manager of the PaperClip desktop shell.                          *)
(*                                                                         *)
(* The host (App.js) owns the list of window records and the focused id;   *)
(* each WindowFrame owns its drag/resize state.  One action models one     *)
(* event handler together with the render and the auto-focus effect that   *)
(* React 18 flushes before the next event is dispatched.                   *)
(***************************************************************************)
EXTENDS Integers, Sequences, FiniteSets, TLC

VARIABLES
    user,            \* App.js:32  TRUE when a user is logged in (desktop shown)
    windows,         \* App.js:42  the list of window records
    activeWindowId,  \* App.js:40  the focused id, or Null
    frames,          \* part_002:23-26  per mounted WindowFrame: dragging, resizing, refs
    now,             \* the value Date.now() returns (milliseconds, never decreasing)
    panels,          \* part_001:11-14  per mounted ChatInterface: messages, isLoading, error
    requests,        \* apiService.query calls in flight, each with the panel awaiting it
    call,            \* an apiService call on its own: its backend outcome and what it settled to
    buttonDown,      \* history: the pointer button is held down
    auth,            \* the token in localStorage and on the API client, the auth calls in flight
    lastOp           \* history: the handler that ran last and its argument

vars == <<user, windows, activeWindowId, frames, now, panels, requests, call,
          buttonDown, auth, lastOp>>

----------------------------------------------------------------------------
(* Bounds of the model *)

\* the clock stops advancing here
MaxTime == 1
\* focus-producing handlers are not fired once the top zIndex reaches this
MaxZ == 4
\* a double click, which raises the zIndex up to five times, is not fired once
\* the top zIndex would pass this
MaxClickZ == 12
\* a chat panel sends no further message once its transcript has this length
MaxMessages == 2
\* no further save is started while this many are in flight
MaxSaves == 1

----------------------------------------------------------------------------
(* Program constants *)

\* cascade step of openWindow
CascadeStep == 30
\* cascade base of openWindow, x axis
BaseX == 180
\* cascade base of openWindow, y axis
BaseY == 80
\* floor of the frame's resize gesture, width
MinWidth == 420
\* floor of the frame's resize gesture, height
MinHeight == 280

\* useState(null): no window is focused
Null == "null"

\* Window types the model opens: one of the table, one that is not in it.
Types == {"chat", "notes"}

\* DEFAULT_WINDOWS, restricted to the types of the model
DEFAULT_WINDOWS ==
    [chat     |-> [title |-> "Chat v0.98", width |-> 760, height |-> 520],
     research |-> [title |-> "Research Lab v0.98", width |-> 820, height |-> 560],
     paper_summarizer |-> [title |-> "Paper Summarizer", width |-> 800, height |-> 550]]

\* The value of a property that an object does not have
Undefined == "undefined"

\* Property names that every object literal inherits from Object.prototype, so
\* that DEFAULT_WINDOWS[name] is a truthy value although the table has no such
\* entry: the model's representative is 'constructor'.
InheritedKeys == {"constructor"}

\* DEFAULT_WINDOWS[type] || { title: 'Window', width: 680, height: 480 }, as
\* openWindow then reads it: defaults.title, defaults.width, defaults.height.
\* For an inherited name the look-up yields the inherited value (the function
\* Object), which has none of the three properties.
Defaults(type) ==
    IF type = "chat" THEN DEFAULT_WINDOWS.chat
    ELSE IF type = "research" THEN DEFAULT_WINDOWS.research
    ELSE IF type = "paper_summarizer" THEN DEFAULT_WINDOWS.paper_summarizer
    ELSE IF type \in InheritedKeys
         THEN [title |-> Undefined, width |-> Undefined, height |-> Undefined]
    ELSE [title |-> "Window", width |-> 680, height |-> 480]

----------------------------------------------------------------------------
(* Helpers over the window list *)

Ids(ws) == {ws[i].id : i \in DOMAIN ws}

Present(ws, id) == \E i \in DOMAIN ws : ws[i].id = id

SetMax(S) == CHOOSE m \in S : \A n \in S : n <= m

\* Math.max(0, ...prev.map((win) => win.zIndex || 0))
MaxZOf(prev) == SetMax({0} \cup {prev[i].zIndex : i \in DOMAIN prev})

\* prev.filter(keep): the subsequence of the records whose id is not `id`
RECURSIVE FilterOut(_, _)
FilterOut(prev, id) ==
    IF prev = <<>> THEN <<>>
    ELSE IF Head(prev).id = id THEN FilterOut(Tail(prev), id)
    ELSE <<Head(prev)>> \o FilterOut(Tail(prev), id)

\* Mutant of NewId: the type prefix is dropped, `${Date.now()}`.
NewId_TimeOnly(type, t) == ToString(t)

\* `${type}-${Date.now()}`
NewId(type, t) == type \o "-" \o ToString(t)

----------------------------------------------------------------------------
(* The state updaters the handlers pass to setWindows / setActiveWindowId *)

\* Mutant of RaiseUpdater: the increment is forgotten, the record only ties
\* with the top one.
RaiseUpdater_NoIncrement(prev, id) ==
    [i \in DOMAIN prev |->
        IF prev[i].id = id THEN [prev[i] EXCEPT !.zIndex = MaxZOf(prev)]
        ELSE prev[i]]

\* Mutant of RaiseUpdater: the raised record is also moved to the end of the
\* list, as a host that keeps its list in stacking order would do.
RaiseUpdater_MovesToEnd(prev, id) ==
    IF \E i \in DOMAIN prev : prev[i].id = id
    THEN LET win == prev[CHOOSE i \in DOMAIN prev : prev[i].id = id]
         IN  Append(FilterOut(prev, id), [win EXCEPT !.zIndex = MaxZOf(prev) + 1])
    ELSE prev

\* Mutant of RaiseUpdater: the record's own zIndex is incremented instead of
\* the list's maximum.
RaiseUpdater_OwnPlusOne(prev, id) ==
    [i \in DOMAIN prev |->
        IF prev[i].id = id THEN [prev[i] EXCEPT !.zIndex = prev[i].zIndex + 1]
        ELSE prev[i]]

\* bringToFront's updater: the matching record gets maxZ + 1
RaiseUpdater(prev, id) ==
    [i \in DOMAIN prev |->
        IF prev[i].id = id THEN [prev[i] EXCEPT !.zIndex = MaxZOf(prev) + 1]
        ELSE prev[i]]

\* Mutant of NewRecord: the cascade offset counts the visible records only.
NewRecord_CountsVisible(prev, type, t) ==
    [id        |-> NewId(type, t),
     type      |-> type,
     title     |-> Defaults(type).title,
     width     |-> Defaults(type).width,
     height    |-> Defaults(type).height,
     x         |-> BaseX + CascadeStep * Cardinality({i \in DOMAIN prev : ~prev[i].minimized}),
     y         |-> BaseY + CascadeStep * Cardinality({i \in DOMAIN prev : ~prev[i].minimized}),
     minimized |-> FALSE,
     maximized |-> FALSE,
     zIndex    |-> MaxZOf(prev) + 1]

\* The record openWindow creates for `type` at time t in the list `prev`.  It is
\* created without a maximized field; every reader of that field only tests its
\* truthiness (!win.maximized, maximized ? a : b), so the absent field is FALSE.
NewRecord(prev, type, t) ==
    [id        |-> NewId(type, t),
     type      |-> type,
     title     |-> Defaults(type).title,
     width     |-> Defaults(type).width,
     height    |-> Defaults(type).height,
     x         |-> BaseX + CascadeStep * Len(prev),
     y         |-> BaseY + CascadeStep * Len(prev),
     minimized |-> FALSE,
     maximized |-> FALSE,
     zIndex    |-> MaxZOf(prev) + 1]

\* Mutant of OpenUpdater: the look-up of an existing record is missing.
OpenUpdater_AlwaysAppends(prev, type, t) == Append(prev, NewRecord(prev, type, t))

\* Mutant of OpenUpdater: re-opening also un-maximizes the record.
OpenUpdater_ResetsMaximized(prev, type, t) ==
    IF \E i \in DOMAIN prev : prev[i].type = type
    THEN [i \in DOMAIN prev |->
            IF prev[i].type = type
            THEN [prev[i] EXCEPT !.minimized = FALSE, !.maximized = FALSE,
                                 !.zIndex = MaxZOf(prev) + 1]
            ELSE prev[i]]
    ELSE Append(prev, NewRecord(prev, type, t))

\* openWindow's updater
OpenUpdater(prev, type, t) ==
    IF \E i \in DOMAIN prev : prev[i].type = type
    THEN [i \in DOMAIN prev |->
            IF prev[i].type = type
            THEN [prev[i] EXCEPT !.minimized = FALSE, !.zIndex = MaxZOf(prev) + 1]
            ELSE prev[i]]
    ELSE Append(prev, NewRecord(prev, type, t))

\* Mutant of CloseUpdater: splice(index) without a delete count drops the
\* matching record and everything after it.
CloseUpdater_DropsTail(prev, id) ==
    IF \E i \in DOMAIN prev : prev[i].id = id
    THEN SubSeq(prev, 1, (CHOOSE i \in DOMAIN prev : prev[i].id = id) - 1)
    ELSE prev

\* closeWindow's list updater
CloseUpdater(prev, id) == FilterOut(prev, id)

\* closeWindow's and minimizeWindow's focus updater: (prev === id ? null : prev)
ClearIfActive(prevActive, id) == IF prevActive = id THEN Null ELSE prevActive

\* Mutant of MinimizeUpdater: minimizing also un-maximizes the record.
MinimizeUpdater_ClearsMaximized(prev, id) ==
    [i \in DOMAIN prev |->
        IF prev[i].id = id
        THEN [prev[i] EXCEPT !.minimized = TRUE, !.maximized = FALSE]
        ELSE prev[i]]

\* minimizeWindow's updater
MinimizeUpdater(prev, id) ==
    [i \in DOMAIN prev |->
        IF prev[i].id = id THEN [prev[i] EXCEPT !.minimized = TRUE] ELSE prev[i]]

\* Mutant of MaximizeUpdater: the minimized flag is left as it was.
MaximizeUpdater_KeepsMinimized(prev, id) ==
    [i \in DOMAIN prev |->
        IF prev[i].id = id
        THEN [prev[i] EXCEPT !.maximized = ~prev[i].maximized]
        ELSE prev[i]]

\* Mutant of MaximizeUpdater: the flag is set instead of toggled.
MaximizeUpdater_AlwaysMaximizes(prev, id) ==
    [i \in DOMAIN prev |->
        IF prev[i].id = id
        THEN [prev[i] EXCEPT !.maximized = TRUE, !.minimized = FALSE]
        ELSE prev[i]]

\* Mutant of MaximizeUpdater: maximizing writes the work area's origin into
\* the record.
MaximizeUpdater_StoresOrigin(prev, id) ==
    [i \in DOMAIN prev |->
        IF prev[i].id = id
        THEN IF prev[i].maximized
             THEN [prev[i] EXCEPT !.maximized = FALSE, !.minimized = FALSE]
             ELSE [prev[i] EXCEPT !.maximized = TRUE, !.minimized = FALSE,
                                  !.x = 0, !.y = 0]
        ELSE prev[i]]

\* maximizeWindow's first updater
MaximizeUpdater(prev, id) ==
    [i \in DOMAIN prev |->
        IF prev[i].id = id
        THEN [prev[i] EXCEPT !.maximized = ~prev[i].maximized, !.minimized = FALSE]
        ELSE prev[i]]

\* Mutant of RestoreUpdater: restoring also un-maximizes the record.
RestoreUpdater_ClearsMaximized(prev, id) ==
    [i \in DOMAIN prev |->
        IF prev[i].id = id
        THEN [prev[i] EXCEPT !.minimized = FALSE, !.maximized = FALSE]
        ELSE prev[i]]

\* restoreWindow's first updater
RestoreUpdater(prev, id) ==
    [i \in DOMAIN prev |->
        IF prev[i].id = id THEN [prev[i] EXCEPT !.minimized = FALSE] ELSE prev[i]]

\* moveWindow's updater: { ...win, ...pos }
MoveUpdater(prev, id, pos) ==
    [i \in DOMAIN prev |->
        IF prev[i].id = id THEN [prev[i] EXCEPT !.x = pos[1], !.y = pos[2]]
        ELSE prev[i]]

\* resizeWindow's updater: { ...win, ...size }
ResizeUpdater(prev, id, size) ==
    [i \in DOMAIN prev |->
        IF prev[i].id = id THEN [prev[i] EXCEPT !.width = size[1], !.height = size[2]]
        ELSE prev[i]]

\* Mutant of AutoFocus: the effect picks the first record, windows[0].
AutoFocus_First(ws, active) ==
    IF Len(ws) > 0 /\ ~Present(ws, active) THEN ws[1].id ELSE active

\* Mutant of AutoFocus: the effect is missing.
AutoFocus_Never(ws, active) == active

\* The auto-focus effect, run to its fixed point after the render.
AutoFocus(ws, active) ==
    IF Len(ws) > 0 /\ ~Present(ws, active) THEN ws[Len(ws)].id ELSE active

----------------------------------------------------------------------------
(* WindowFrame: per-frame state and the pointer handlers *)

\* inputs: where the pointer is when an event fires (clientX, clientY)
Pointers == {<<250, 150>>, <<900, 580>>}

\* inputs of a direct moveWindow call
HostPositions == {<<0, 0>>}

\* inputs of a direct resizeWindow call
HostSizes == {<<10, 10>>}

\* useState(false) twice, useRef({x:0,y:0}), useRef({x:0,y:0,w:0,h:0})
InitFrame ==
    [dragging |-> FALSE, resizing |-> FALSE,
     dragOffset |-> <<0, 0>>, resizeStart |-> <<0, 0, 0, 0>>]

\* Mutant of MountFrames: the frame of a removed record stays mounted.
MountFrames_KeepsRemoved(ws, fr) ==
    [id \in Ids(ws) \cup DOMAIN fr |-> IF id \in DOMAIN fr THEN fr[id] ELSE InitFrame]

\* Frames are keyed by win.id: a frame keeps its state while its record is in
\* the list, a new record mounts a fresh frame, a removed one unmounts.
MountFrames(ws, fr) ==
    [id \in Ids(ws) |-> IF id \in DOMAIN fr THEN fr[id] ELSE InitFrame]

\* The record a frame renders (its props).
WinOf(ws, id) == ws[CHOOSE i \in DOMAIN ws : ws[i].id = id]

Max2(a, b) == IF a >= b THEN a ELSE b

\* The frame's box contains the pointer: left/top are its translate(x, y), or
\* the origin when maximized (transform: none).
Hits(win, p) ==
    IF win.maximized THEN TRUE
    ELSE /\ win.x <= p[1] /\ p[1] <= win.x + win.width
         /\ win.y <= p[2] /\ p[2] <= win.y + win.height

\* getBoundingClientRect() of the frame: left and top
RectOf(win) == IF win.maximized THEN <<0, 0>> ELSE <<win.x, win.y>>

\* Mutant of HandleMove: the handler does not look at the maximized prop.
HandleMove_IgnoresMaximized(shown, ws, fr, id, p) ==
    LET f   == fr[id]
        ws1 == IF f.dragging
               THEN MoveUpdater(ws, id,
                        <<p[1] - f.dragOffset[1], p[2] - f.dragOffset[2]>>)
               ELSE ws
    IN  IF f.resizing
        THEN ResizeUpdater(ws1, id,
                <<Max2(MinWidth, f.resizeStart[3] + p[1] - f.resizeStart[1]),
                  Max2(MinHeight, f.resizeStart[4] + p[2] - f.resizeStart[2])>>)
        ELSE ws1

\* Mutant of HandleMove: the new size is not clamped to the floor.
HandleMove_NoClamp(shown, ws, fr, id, p) ==
    LET win == WinOf(shown, id)
        f   == fr[id]
        ws1 == IF f.dragging /\ ~win.maximized
               THEN MoveUpdater(ws, id,
                        <<p[1] - f.dragOffset[1], p[2] - f.dragOffset[2]>>)
               ELSE ws
    IN  IF f.resizing /\ ~win.maximized
        THEN ResizeUpdater(ws1, id,
                <<f.resizeStart[3] + p[1] - f.resizeStart[1],
                  f.resizeStart[4] + p[2] - f.resizeStart[2]>>)
        ELSE ws1

\* Mutant of HandleMove: the drag places the record's corner at the pointer,
\* the captured offset is not subtracted.
HandleMove_DropsOffset(shown, ws, fr, id, p) ==
    LET win == WinOf(shown, id)
        f   == fr[id]
        ws1 == IF f.dragging /\ ~win.maximized
               THEN MoveUpdater(ws, id, <<p[1], p[2]>>)
               ELSE ws
        dx  == p[1] - f.resizeStart[1]
        dy  == p[2] - f.resizeStart[2]
    IN  IF f.resizing /\ ~win.maximized
        THEN ResizeUpdater(ws1, id,
                <<Max2(MinWidth, f.resizeStart[3] + dx),
                  Max2(MinHeight, f.resizeStart[4] + dy)>>)
        ELSE ws1

\* Mutant of HandleMove: the resize adds the pointer's travel to the record's
\* current size instead of the size captured at pointer-down.
HandleMove_RunningSize(shown, ws, fr, id, p) ==
    LET win == WinOf(shown, id)
        f   == fr[id]
        ws1 == IF f.dragging /\ ~win.maximized
               THEN MoveUpdater(ws, id,
                        <<p[1] - f.dragOffset[1], p[2] - f.dragOffset[2]>>)
               ELSE ws
        dx  == p[1] - f.resizeStart[1]
        dy  == p[2] - f.resizeStart[2]
    IN  IF f.resizing /\ ~win.maximized
        THEN ResizeUpdater(ws1, id,
                <<Max2(MinWidth, win.width + dx), Max2(MinHeight, win.height + dy)>>)
        ELSE ws1

\* handleMove of the frame `id` for a pointer at p: the closure reads the props
\* of the render that attached it (`shown`), the host updaters compose on `ws`.
HandleMove(shown, ws, fr, id, p) ==
    LET win == WinOf(shown, id)
        f   == fr[id]
        ws1 == IF f.dragging /\ ~win.maximized
               THEN MoveUpdater(ws, id,
                        <<p[1] - f.dragOffset[1], p[2] - f.dragOffset[2]>>)
               ELSE ws
        dx  == p[1] - f.resizeStart[1]
        dy  == p[2] - f.resizeStart[2]
    IN  IF f.resizing /\ ~win.maximized
        THEN ResizeUpdater(ws1, id,
                <<Max2(MinWidth, f.resizeStart[3] + dx),
                  Max2(MinHeight, f.resizeStart[4] + dy)>>)
        ELSE ws1

\* A frame has its window listeners attached while dragging || resizing.
Listening(fr, id) == fr[id].dragging \/ fr[id].resizing

\* One mousemove reaches the listener of every frame that has one; `ids` are
\* the frames still to be served.
RECURSIVE DispatchMove(_, _, _, _, _)
DispatchMove(ids, shown, ws, fr, p) ==
    IF ids = {} THEN ws
    ELSE LET id == CHOOSE i \in ids : TRUE
         IN  DispatchMove(ids \ {id}, shown, HandleMove(shown, ws, fr, id, p), fr, p)

\* Mutant of DispatchUp: handleUp forgets setResizing(false).
DispatchUp_KeepsResizing(fr) ==
    [id \in DOMAIN fr |->
        IF Listening(fr, id) THEN [fr[id] EXCEPT !.dragging = FALSE] ELSE fr[id]]

\* Mutant of DispatchUp: handleUp forgets setDragging(false).
DispatchUp_KeepsDragging(fr) ==
    [id \in DOMAIN fr |->
        IF Listening(fr, id) THEN [fr[id] EXCEPT !.resizing = FALSE] ELSE fr[id]]

\* handleUp of every attached listener: setDragging(false); setResizing(false)
DispatchUp(fr) ==
    [id \in DOMAIN fr |->
        IF Listening(fr, id)
        THEN [fr[id] EXCEPT !.dragging = FALSE, !.resizing = FALSE]
        ELSE fr[id]]

----------------------------------------------------------------------------
(* The API client (services/api) *)

\* A JavaScript string is the sequence of its words; the values that are not
\* strings are told apart by their type.
Str(words) == [type |-> "string", words |-> words]

JsUndefined == [type |-> "undefined"]

\* FastAPI's detail of a 422 validation error: an array of objects
JsArray == [type |-> "array"]

\* a detail that is an object
JsObject == [type |-> "object"]

\* if (value): undefined and the empty string are falsy, arrays and objects
\* are truthy
Truthy(v) == v.type # "undefined" /\ ~(v.type = "string" /\ v.words = <<>>)

\* String.prototype.toLowerCase on the words of the model
LowerWord(w) ==
    IF w = "Timeout" THEN "timeout"
    ELSE IF w = "Gateway" THEN "gateway"
    ELSE IF w = "Network" THEN "network"
    ELSE IF w = "Error" THEN "error"
    ELSE IF w = "Request" THEN "request"
    ELSE IF w = "Invalid" THEN "invalid"
    ELSE w

toLowerCase(str) == Str([i \in DOMAIN str.words |-> LowerWord(str.words[i])])

\* String.prototype.includes for a word
includes(str, w) == \E i \in DOMAIN str.words : str.words[i] = w

TimeoutText == Str(<<"Request", "timed", "out.", "Try", "again">>)

\* error.response?.data?.detail || error.message || 'Request failed'
RawMessage(error) ==
    IF Truthy(error.detail) THEN error.detail
    ELSE IF Truthy(error.message) THEN error.message
    ELSE Str(<<"Request", "failed">>)

\* getErrorMessage calls rawMessage.toLowerCase(): a TypeError when the raw
\* message is not a string
GetErrorMessageThrows(error) == RawMessage(error).type # "string"

\* getErrorMessage, when it returns
getErrorMessage(error) ==
    IF includes(toLowerCase(RawMessage(error)), "timeout") THEN TimeoutText
    ELSE RawMessage(error)

\* The methods of the model: three whose catch block calls getErrorMessage,
\* two whose catch block returns error.message.
DetailMethods == {"register", "login", "query"}

MessageMethods == {"checkHealth", "getTools"}

Methods == DetailMethods \cup MessageMethods

\* What axios does with the request: a 2xx response with its data, an error
\* response with the detail of its body (if any), or no response at all.
Responses == {[kind |-> "response", data |-> d] : d \in {"data1", "data2", "data3"}}

StatusMessage == Str(<<"Request", "failed", "with", "status", "code">>)

ErrorResponses ==
    {[kind |-> "error", detail |-> d, message |-> StatusMessage] :
        d \in {JsUndefined, Str(<<>>), Str(<<"Invalid", "credentials">>),
                Str(<<"Gateway", "Timeout">>), JsArray, JsObject}}

NoResponses ==
    {[kind |-> "error", detail |-> JsUndefined, message |-> m] :
        m \in {Str(<<"Network", "Error">>),
                Str(<<"timeout", "of", "120000ms", "exceeded">>)}}

Outcomes == Responses \cup ErrorResponses \cup NoResponses

\* What the promise returned by an apiService method settles to
Settle(method, outcome) ==
    IF outcome.kind = "response"
    THEN [state |-> "resolved", value |-> [success |-> TRUE, data |-> outcome.data]]
    ELSE IF method \in MessageMethods
    THEN [state |-> "resolved", value |-> [success |-> FALSE, error |-> outcome.message]]
    ELSE IF GetErrorMessageThrows(outcome)
    THEN [state |-> "rejected"]
    ELSE [state |-> "resolved",
          value |-> [success |-> FALSE, error |-> getErrorMessage(outcome)]]

----------------------------------------------------------------------------
(* Content panels (ChatInterface) and the API calls they await *)

\* No apiService call is being looked at.
NoCall == [method |-> Null, outcome |-> Null, state |-> "none", result |-> Null]

\* The tool ids of the model: windows that render a DynamicToolInterface
ToolIds == {"paper_summarizer"}

\* data.workspaces of getWorkspaces, as the ids in list order
Workspaces == <<"A", "B">>

\* data.messages of getWorkspaceMessages(w): one stored message, named after
\* its workspace
StoredMessages(w) == <<w>>

\* data.memory of getWorkspaceMemory(w): one item, named after its workspace
StoredMemory(w) == <<w>>

\* The elements of a list
Range(seq) == {seq[i] : i \in DOMAIN seq}

\* The state of a ChatInterface or of a DynamicToolInterface after its mount
\* effects ran, the user being authenticated: the useState initial values, and
\* getWorkspaces called once. `listing` holds, for each loadWorkspaces call in
\* flight, the workspaceId its closure saw; `loading` the workspace of each
\* loadWorkspaceData (loadMessages) call in flight. Calls of one panel with
\* the same argument are not told apart.
InitPanel ==
    [messages |-> <<>>, isLoading |-> FALSE, error |-> Str(<<>>),
     workspaces |-> <<>>, workspaceId |-> "", memoryItems |-> <<>>,
     listing |-> {""}, loading |-> {}]

\* A ChatInterface or a DynamicToolInterface is mounted as the child of a
\* frame that produces output: the record has type 'chat' or a tool id and is
\* not minimized (WindowFrame returns null for a minimized record, so its
\* children unmount and lose their state).
ShowsPanel(win) == win.type \in {"chat"} \cup ToolIds /\ ~win.minimized

PanelIds(ws) == {ws[i].id : i \in {j \in DOMAIN ws : ShowsPanel(ws[j])}}

MountPanels(ws, pn) ==
    [id \in PanelIds(ws) |-> IF id \in DOMAIN pn THEN pn[id] ELSE InitPanel]

\* A call in flight outlives the panel that awaits it; once that panel has
\* unmounted, the state setters its continuation calls have no effect.
Orphan(reqs, ws) ==
    {IF r.panel \in PanelIds(ws) THEN r ELSE [r EXCEPT !.live = FALSE] : r \in reqs}

\* A panel after a loadWorkspaces call whose closure saw the workspaceId
\* `seen` got its answer (chat), or after the getWorkspaces call of the mount
\* effect got its answer (tool). For the chat panel a changed workspaceId
\* re-runs both effects: loadWorkspaces and loadWorkspaceData are called.
AfterList(kind, panel, seen, ok) ==
    LET p0    == [panel EXCEPT !.listing = @ \ {seen}]
        first == Workspaces[1]
    IN  IF ~ok THEN p0
        ELSE IF kind = "chat"
        THEN IF seen = "" /\ Len(Workspaces) > 0 /\ panel.workspaceId # first
             THEN [p0 EXCEPT !.workspaces = Workspaces,
                             !.workspaceId = first,
                             !.listing = @ \cup {first},
                             !.loading = @ \cup {first}]
             ELSE [p0 EXCEPT !.workspaces = Workspaces]
        ELSE IF Len(Workspaces) > 0
        THEN [p0 EXCEPT !.workspaces = Workspaces,
                        !.workspaceId = first,
                        !.loading = @ \cup {first}]
        ELSE [p0 EXCEPT !.workspaces = Workspaces]

\* A panel after the workspace select changed to w: setWorkspaceId(w) and the
\* two effects that depend on it (chat), handleWorkspaceChange (tool).
AfterSelect(kind, panel, w) ==
    IF kind = "chat"
    THEN [panel EXCEPT !.workspaceId = w,
                       !.listing = @ \cup {w},
                       !.loading = IF w # "" THEN @ \cup {w} ELSE @,
                       !.messages = IF w = "" THEN <<>> ELSE @,
                       !.memoryItems = IF w = "" THEN <<>> ELSE @]
    ELSE [panel EXCEPT !.workspaceId = w,
                       !.messages = <<>>,
                       !.loading = IF w # "" THEN @ \cup {w} ELSE @]

\* A panel after loadWorkspaceData(w) (chat) or loadMessages(w) (tool) got
\* its answers.
AfterLoad(kind, panel, w, ok) ==
    LET p0 == [panel EXCEPT !.loading = @ \ {w}]
    IN  IF ~ok THEN p0
        ELSE IF kind = "chat"
        THEN [p0 EXCEPT !.messages = StoredMessages(w), !.memoryItems = StoredMemory(w)]
        ELSE [p0 EXCEPT !.messages = StoredMessages(w)]

\* inputs: what the user answers to the title prompt
Titles == {"Saved Snippet", "Reading list"}

\* The request apiService.createWorkspaceResource posts, its parameters in
\* the order of its signature.
createWorkspaceResource(workspaceId, type, title, content) ==
    [workspace |-> workspaceId,
     body |-> [type |-> type, title |-> title, content |-> content]]

\* The call handleSaveResource (chat) and handleSaveToWorkspace (tool) make,
\* their arguments in the order they are written there.
SaveCall(kind, workspaceId, title, content) ==
    IF kind = "chat"
    THEN createWorkspaceResource(workspaceId, title, content, "note")
    ELSE createWorkspaceResource(workspaceId, title, content, "tool_result")

\* The tag a panel gives the resources it saves
TagOf(kind) == IF kind = "chat" THEN "note" ELSE "tool_result"

\* prev.slice(0, -1)
DropLast(msgs) == IF msgs = <<>> THEN <<>> ELSE SubSeq(msgs, 1, Len(msgs) - 1)

\* The outcomes a query of the model meets: an answer, an error response with
\* a message, and a validation error, whose detail is an array.
QueryOutcomes ==
    {[kind |-> "response", data |-> "data1"],
     [kind |-> "error", detail |-> Str(<<"Invalid", "credentials">>), message |-> StatusMessage],
     [kind |-> "error", detail |-> JsArray, message |-> StatusMessage]}

\* The panel after handleSendMessage resumed with what apiService.query
\* settled to: the try branch for a success, its else branch for a
\* non-success result, the catch block for a rejection; then setIsLoading(false).
AfterQuery(panel, res) ==
    IF res.state = "resolved" /\ res.value.success /\ res.value.data # Null
    THEN [panel EXCEPT !.messages = Append(@, "assistant"), !.isLoading = FALSE]
    ELSE IF res.state = "resolved"
    THEN [panel EXCEPT !.error = IF ~res.value.success
                                  THEN IF Truthy(res.value.error) THEN res.value.error
                                       ELSE Str(<<"Failed", "to", "get", "response">>)
                                  ELSE Str(<<"Failed", "to", "get", "response">>),
                       !.messages = DropLast(@),
                       !.isLoading = FALSE]
    ELSE [panel EXCEPT !.error = Str(<<"Connection", "error">>),
                       !.messages = DropLast(@),
                       !.isLoading = FALSE]

\* The outcomes of a query, with a 2xx response that has no body
PayloadOutcomes == QueryOutcomes \cup {[kind |-> "response", data |-> Null]}

\* The tool panel after handleSend resumed: nothing more runs when the await
\* throws (a rejection) or when result.data.response throws (data is null);
\* otherwise the answer is appended or the error set, then setIsLoading(false).
AfterToolQuery(panel, res) ==
    IF res.state = "rejected" THEN panel
    ELSE IF res.value.success
    THEN IF res.value.data = Null THEN panel
         ELSE [panel EXCEPT !.messages = Append(@, "assistant"), !.isLoading = FALSE]
    ELSE [panel EXCEPT !.error = IF Truthy(res.value.error) THEN res.value.error
                                  ELSE Str(<<"Request", "failed">>),
                       !.isLoading = FALSE]

\* Mutant of QueryDone: a failed query closes the window of its panel.
QueryDone_ClosesOnFailure(ws, pn, r, res) ==
    IF res.state = "resolved" /\ res.value.success
    THEN [ws |-> ws,
          pn |-> IF r.live THEN [pn EXCEPT ![r.panel] = AfterQuery(@, res)] ELSE pn]
    ELSE [ws |-> FilterOut(ws, r.panel), pn |-> pn]

\* The continuation of handleSendMessage for the call r: it calls the state
\* setters of its own panel and nothing of the host; the setters of a panel
\* that has unmounted have no effect.
QueryDone(ws, pn, r, res) ==
    [ws |-> ws,
     pn |-> IF r.live THEN [pn EXCEPT ![r.panel] = AfterQuery(@, res)] ELSE pn]

\* The token the backend issues at a login or a registration
IssuedToken == "t1"

\* A token left in localStorage by an earlier session
EarlierToken == "t0"

\* localStorage 'paperclip_token', the Authorization header of the API client,
\* the getMe call of the startup effect, the login/register call and the boot
\* sequence of handleAuthSubmit, the isLoading flag; and, as history, whether
\* a logout has happened with no successful login since.
NoAuth ==
    [stored |-> Null, header |-> Null, getMe |-> "none", login |-> "none",
     boot |-> "none", isLoading |-> FALSE, loggedOut |-> FALSE]

\* handleLogout removes the token and clears the header; no other handler of
\* the desktop touches them.
AuthAfter(op, au) ==
    IF op = "logout"
    THEN [au EXCEPT !.stored = Null, !.header = Null, !.loggedOut = TRUE]
    ELSE au

\* The handlers of a pointer-down on a frame
PointerDownOps == {"titleMouseDown", "bodyMouseDown", "resizerMouseDown"}

\* The pointer button after the handler `op` ran
ButtonAfter(op, down) ==
    IF op \in PointerDownOps THEN TRUE
    ELSE IF op = "mouseUp" THEN FALSE
    ELSE down

----------------------------------------------------------------------------
(* The state after construction: login screen, no window, nothing focused *)

Init ==
    /\ user = FALSE
    /\ windows = <<>>
    /\ activeWindowId = Null
    /\ frames = MountFrames(<<>>, <<>>)
    /\ now = 0
    /\ panels = MountPanels(<<>>, <<>>)
    /\ requests = {}
    /\ call = NoCall
    /\ buttonDown = FALSE
    /\ auth = NoAuth
    /\ lastOp = [op |-> "init", arg |-> Null]

\* Every handler ends the same way: the list and the focus it asked for are
\* committed, frames are mounted/unmounted by key, the auto-focus effect runs.
Commit(ws, active, fr, op, arg) ==
    /\ windows' = ws
    /\ activeWindowId' = AutoFocus(ws, active)
    /\ frames' = MountFrames(ws, fr)
    /\ panels' = MountPanels(ws, panels)
    /\ requests' = Orphan(requests, ws)
    /\ buttonDown' = ButtonAfter(op, buttonDown)
    /\ auth' = AuthAfter(op, auth)
    /\ lastOp' = [op |-> op, arg |-> arg]
    /\ UNCHANGED call

\* Ids a caller passes: those of the records in the list.
IdInputs == Ids(windows)

\* The top zIndex may still grow by n within the bound of the model.
CanRaise(n) == MaxZOf(windows) + n <= MaxZ

----------------------------------------------------------------------------
(* Host operations (App.js) *)

\* handleAuthSubmit with a successful result, through the boot sequence
handleAuthSubmit ==
    /\ ~user
    /\ user' = TRUE
    /\ auth' = [auth EXCEPT !.stored = IssuedToken, !.header = IssuedToken,
                            !.loggedOut = FALSE]
    /\ lastOp' = [op |-> "login", arg |-> Null]
    /\ UNCHANGED <<windows, activeWindowId, frames, now, panels, requests, call,
                   buttonDown>>

\* time passes
Tick ==
    /\ now < MaxTime
    /\ now' = now + 1
    /\ UNCHANGED <<user, windows, activeWindowId, frames, panels, requests, call,
                   buttonDown, auth, lastOp>>

bringToFront(id) ==
    /\ user
    /\ CanRaise(1)
    /\ Commit(RaiseUpdater(windows, id), id, frames, "bringToFront", id)
    /\ UNCHANGED <<user, now>>

openWindow(type) ==
    /\ user
    /\ CanRaise(1)
    /\ Commit(OpenUpdater(windows, type, now), activeWindowId, frames, "openWindow", type)
    /\ UNCHANGED <<user, now>>

closeWindow(id) ==
    /\ user
    /\ Commit(CloseUpdater(windows, id), ClearIfActive(activeWindowId, id), frames,
              "closeWindow", id)
    /\ UNCHANGED <<user, now>>

minimizeWindow(id) ==
    /\ user
    /\ Commit(MinimizeUpdater(windows, id), ClearIfActive(activeWindowId, id), frames,
              "minimizeWindow", id)
    /\ UNCHANGED <<user, now>>

maximizeWindow(id) ==
    /\ user
    /\ CanRaise(1)
    /\ Commit(RaiseUpdater(MaximizeUpdater(windows, id), id), id, frames,
              "maximizeWindow", id)
    /\ UNCHANGED <<user, now>>

restoreWindow(id) ==
    /\ user
    /\ CanRaise(1)
    /\ Commit(RaiseUpdater(RestoreUpdater(windows, id), id), id, frames,
              "restoreWindow", id)
    /\ UNCHANGED <<user, now>>

moveWindow(id, pos) ==
    /\ user
    /\ Commit(MoveUpdater(windows, id, pos), activeWindowId, frames, "moveWindow", id)
    /\ UNCHANGED <<user, now>>

resizeWindow(id, size) ==
    /\ user
    /\ Commit(ResizeUpdater(windows, id, size), activeWindowId, frames, "resizeWindow", id)
    /\ UNCHANGED <<user, now>>

\* handleLogout: the login screen replaces the desktop, every frame unmounts
handleLogout ==
    /\ user
    /\ user' = FALSE
    /\ Commit(<<>>, activeWindowId, frames, "logout", Null)
    /\ UNCHANGED now

\* Mutant of TaskbarClick: the focus test comes before the minimized test.
TaskbarClick_FocusTestFirst(id) ==
    /\ user
    /\ Present(windows, id)
    /\ LET win == WinOf(windows, id)
       IN  IF activeWindowId = id
           THEN Commit(MinimizeUpdater(windows, id), ClearIfActive(activeWindowId, id),
                       frames, "taskbarClick", id)
           ELSE IF win.minimized
           THEN /\ CanRaise(1)
                /\ Commit(RaiseUpdater(RestoreUpdater(windows, id), id), id, frames,
                          "taskbarClick", id)
           ELSE /\ CanRaise(1)
                /\ Commit(RaiseUpdater(windows, id), id, frames, "taskbarClick", id)
    /\ UNCHANGED <<user, now>>

\* The taskbar entry of a record: restore, minimize or focus
TaskbarClick(id) ==
    /\ user
    /\ Present(windows, id)
    /\ LET win == WinOf(windows, id)
       IN  IF win.minimized
           THEN /\ CanRaise(1)
                /\ Commit(RaiseUpdater(RestoreUpdater(windows, id), id), id, frames,
                          "taskbarClick", id)
           ELSE IF activeWindowId = id
           THEN Commit(MinimizeUpdater(windows, id), ClearIfActive(activeWindowId, id),
                       frames, "taskbarClick", id)
           ELSE /\ CanRaise(1)
                /\ Commit(RaiseUpdater(windows, id), id, frames, "taskbarClick", id)
    /\ UNCHANGED <<user, now>>

----------------------------------------------------------------------------
(* Pointer events on a rendered frame (WindowFrame) *)

\* A frame produces output only while its record is not minimized.
Rendered(id) == user /\ Present(windows, id) /\ ~WinOf(windows, id).minimized

\* Mutant of TitleDown: the frame's own onMouseDown is missing, so that only
\* startDrag focuses, and a maximized title bar does not.
TitleDown_NoFrameFocus(ws, active, fr, id, p) ==
    LET win == WinOf(ws, id)
    IN  IF win.minimized \/ win.maximized
        THEN [ws |-> ws, active |-> active, fr |-> fr]
        ELSE [ws     |-> RaiseUpdater(ws, id),
              active |-> id,
              fr     |-> [fr EXCEPT ![id].dragOffset =
                                        <<p[1] - RectOf(win)[1], p[2] - RectOf(win)[2]>>,
                                    ![id].dragging = TRUE]]

\* Mutant of TitleDown: startDrag does not look at the maximized prop.
TitleDown_DragsMaximized(ws, active, fr, id, p) ==
    LET win == WinOf(ws, id)
    IN  [ws     |-> RaiseUpdater(RaiseUpdater(ws, id), id),
         active |-> id,
         fr     |-> [fr EXCEPT ![id].dragOffset =
                                   <<p[1] - RectOf(win)[1], p[2] - RectOf(win)[2]>>,
                               ![id].dragging = TRUE]]

\* What a mousedown on the title bar of the rendered frame `id` leaves, the
\* pointer at p: startDrag (which returns at once for a maximized record),
\* then, the event bubbling, the frame's own onMouseDown.
TitleDown(ws, active, fr, id, p) ==
    LET win == WinOf(ws, id)
    IN  IF win.minimized \/ win.maximized
        THEN [ws |-> RaiseUpdater(ws, id), active |-> id, fr |-> fr]
        ELSE [ws     |-> RaiseUpdater(RaiseUpdater(ws, id), id),
              active |-> id,
              fr     |-> [fr EXCEPT ![id].dragOffset =
                                        <<p[1] - RectOf(win)[1], p[2] - RectOf(win)[2]>>,
                                    ![id].dragging = TRUE]]

\* mousedown on the title bar (its control buttons included)
TitleMouseDown(id, p) ==
    /\ Rendered(id)
    /\ Hits(WinOf(windows, id), p)
    /\ LET r == TitleDown(windows, activeWindowId, frames, id, p)
       IN  /\ MaxZOf(r.ws) <= MaxZ
           /\ Commit(r.ws, r.active, r.fr, "titleMouseDown", id)
    /\ UNCHANGED <<user, now>>

\* mousedown on the body of the frame: onFocus(id)
BodyMouseDown(id, p) ==
    /\ Rendered(id)
    /\ Hits(WinOf(windows, id), p)
    /\ CanRaise(1)
    /\ Commit(RaiseUpdater(windows, id), id, frames, "bodyMouseDown", id)
    /\ UNCHANGED <<user, now>>

\* mousedown on the resize handle (rendered when not maximized): startResize,
\* which stops the propagation to the frame's onMouseDown
ResizerMouseDown(id, p) ==
    /\ Rendered(id)
    /\ ~WinOf(windows, id).maximized
    /\ Hits(WinOf(windows, id), p)
    /\ CanRaise(1)
    /\ LET win == WinOf(windows, id)
       IN  Commit(RaiseUpdater(windows, id), id,
                  [frames EXCEPT ![id].resizeStart = <<p[1], p[2], win.width, win.height>>,
                                 ![id].resizing = TRUE],
                  "resizerMouseDown", id)
    /\ UNCHANGED <<user, now>>

\* Some frame has its window listeners attached.
Gesturing == \E id \in DOMAIN frames : Listening(frames, id)

\* mousemove on the window, the pointer at p: every attached handleMove runs
MouseMove(p) ==
    /\ user
    /\ Commit(DispatchMove({id \in DOMAIN frames : Listening(frames, id)},
                           windows, windows, frames, p),
              activeWindowId, frames, "mouseMove", p)
    /\ UNCHANGED <<user, now>>

\* mouseup on the window: every attached handleUp runs
MouseUp ==
    /\ user
    /\ Commit(windows, activeWindowId, DispatchUp(frames), "mouseUp", Null)
    /\ UNCHANGED <<user, now>>

\* The controls of a rendered frame, and the double click on its title bar
MinimizeClick(id) == Rendered(id) /\ minimizeWindow(id)

MaximizeClick(id) == Rendered(id) /\ maximizeWindow(id)

CloseClick(id) == Rendered(id) /\ closeWindow(id)

TitleDoubleClick(id) == Rendered(id) /\ maximizeWindow(id)

\* A double click on the title bar of the rendered frame `id` with the pointer
\* resting at p: mousedown, mouseup, mousedown, mouseup, dblclick, each handler
\* running on what the one before it committed.
TitleDoubleClickGesture(id, p) ==
    /\ Rendered(id)
    /\ ~buttonDown
    /\ Hits(WinOf(windows, id), p)
    /\ LET down1 == TitleDown(windows, activeWindowId, frames, id, p)
           up1   == DispatchUp(down1.fr)
           down2 == TitleDown(down1.ws, AutoFocus(down1.ws, down1.active), up1, id, p)
           up2   == DispatchUp(down2.fr)
           ws    == RaiseUpdater(MaximizeUpdater(down2.ws, id), id)
       IN  /\ MaxZOf(ws) <= MaxClickZ
           /\ Commit(ws, id, up2, "titleDoubleClick", id)
    /\ UNCHANGED <<user, now>>

----------------------------------------------------------------------------
(* Authentication step by step (App.js) *)

\* The app starts in a browser whose localStorage holds no token, or holds
\* the token of an earlier session: the startup effect then sets it on the
\* client and calls getMe.
AuthInit ==
    /\ user = FALSE
    /\ windows = <<>>
    /\ activeWindowId = Null
    /\ frames = MountFrames(<<>>, <<>>)
    /\ now = 0
    /\ panels = MountPanels(<<>>, <<>>)
    /\ requests = {}
    /\ call = NoCall
    /\ buttonDown = FALSE
    /\ auth \in {NoAuth,
                 [NoAuth EXCEPT !.stored = EarlierToken, !.header = EarlierToken,
                                !.getMe = "pending"]}
    /\ lastOp = [op |-> "init", arg |-> Null]

\* A step of the authentication: the desktop's state stays.
AuthStep(u, au, op) ==
    /\ user' = u
    /\ auth' = au
    /\ lastOp' = [op |-> op, arg |-> Null]
    /\ UNCHANGED <<windows, activeWindowId, frames, now, panels, requests, call,
                   buttonDown>>

\* The login screen's form is submitted, its fields filled in: handleAuthSubmit
\* up to its await.
AuthSubmit ==
    /\ ~user
    /\ ~auth.isLoading
    /\ auth.login = "none"
    /\ AuthStep(user, [auth EXCEPT !.login = "pending"], "authSubmit")

\* apiService.login / register is answered: on success the token is stored
\* and set on the client and the boot sequence starts.
LoginCompletes(ok) ==
    /\ auth.login = "pending"
    /\ AuthStep(user,
                IF ok
                THEN [auth EXCEPT !.login = "none", !.stored = IssuedToken,
                                  !.header = IssuedToken, !.isLoading = TRUE,
                                  !.boot = "pending", !.loggedOut = FALSE]
                ELSE [auth EXCEPT !.login = "none"],
                "loginCompletes")

\* The boot sequence ends: setUser(result.data.user); setIsLoading(false)
BootDone ==
    /\ auth.boot = "pending"
    /\ AuthStep(TRUE, [auth EXCEPT !.boot = "none", !.isLoading = FALSE], "bootDone")

\* The getMe call of the startup effect is answered.
GetMeCompletes(ok) ==
    /\ auth.getMe = "pending"
    /\ IF ok
       THEN AuthStep(TRUE, [auth EXCEPT !.getMe = "none"], "getMeCompletes")
       ELSE AuthStep(user, [auth EXCEPT !.getMe = "none", !.stored = Null,
                                        !.header = Null], "getMeCompletes")

----------------------------------------------------------------------------
(* The chat panel's query *)

\* handleSendMessage up to its await, the form being enabled and the input
\* not blank
SendMessage(id) ==
    /\ user
    /\ id \in DOMAIN panels
    /\ WinOf(windows, id).type = "chat"
    /\ ~panels[id].isLoading
    /\ Len(panels[id].messages) < MaxMessages
    /\ panels' = [panels EXCEPT ![id].messages  = Append(@, "user"),
                                ![id].isLoading = TRUE,
                                ![id].error     = Str(<<>>)]
    /\ requests' = requests \cup {[panel |-> id, live |-> TRUE, from |-> "chat",
                                   history |-> panels[id].messages, sent |-> Null]}
    /\ lastOp' = [op |-> "sendMessage", arg |-> id]
    /\ UNCHANGED <<user, windows, activeWindowId, frames, now, call, buttonDown, auth>>

\* The call r in flight meets its outcome and handleSendMessage resumes.
QueryCompletes(r, outcome) ==
    /\ r \in requests
    /\ r.from = "chat"
    /\ LET res  == Settle("query", outcome)
           done == QueryDone(windows, panels, r, res)
       IN  /\ windows' = done.ws
           /\ activeWindowId' = AutoFocus(done.ws, activeWindowId)
           /\ frames' = MountFrames(done.ws, frames)
           /\ panels' = MountPanels(done.ws, done.pn)
           /\ requests' = Orphan(requests \ {r}, done.ws)
           /\ lastOp' = [op  |-> "queryCompletes",
                         arg |-> [panel |-> r.panel, live |-> r.live,
                                  history |-> r.history,
                                  ok |-> res.state = "resolved" /\ res.value.success]]
    /\ UNCHANGED <<user, now, call, buttonDown, auth>>

\* handleSend of a tool panel up to its await, the query not blank
ToolSend(id) ==
    /\ user
    /\ id \in DOMAIN panels
    /\ WinOf(windows, id).type \in ToolIds
    /\ ~panels[id].isLoading
    /\ Len(panels[id].messages) < MaxMessages
    /\ panels' = [panels EXCEPT ![id].messages  = Append(@, "user"),
                                ![id].isLoading = TRUE,
                                ![id].error     = Str(<<>>)]
    /\ requests' = requests \cup {[panel |-> id, live |-> TRUE, from |-> "tool",
                                   history |-> panels[id].messages, sent |-> Null]}
    /\ lastOp' = [op |-> "toolSend", arg |-> id]
    /\ UNCHANGED <<user, windows, activeWindowId, frames, now, call, buttonDown, auth>>

\* The call r of a tool panel meets its outcome and handleSend resumes.
ToolQueryCompletes(r, outcome) ==
    /\ r \in requests
    /\ r.from = "tool"
    /\ LET res == Settle("query", outcome)
       IN  /\ panels' = IF r.live
                        THEN [panels EXCEPT ![r.panel] = AfterToolQuery(@, res)]
                        ELSE panels
           /\ lastOp' = [op  |-> "toolQueryCompletes",
                         arg |-> [panel |-> r.panel, live |-> r.live,
                                  ok |-> res.state = "resolved" /\ res.value.success]]
    /\ requests' = requests \ {r}
    /\ UNCHANGED <<user, windows, activeWindowId, frames, now, call, buttonDown, auth>>

----------------------------------------------------------------------------
(* Workspaces in the chat panel and in the tool panels *)

\* The component a panel is an instance of
KindOf(id) == IF WinOf(windows, id).type = "chat" THEN "chat" ELSE "tool"

\* A step of one panel: the host's state and the calls in flight stay.
PanelStep(pn, op, arg) ==
    /\ panels' = pn
    /\ lastOp' = [op |-> op, arg |-> arg]
    /\ UNCHANGED <<user, windows, activeWindowId, frames, now, requests, call, buttonDown, auth>>

\* A getWorkspaces call of the panel is answered.
ListCompletes(id, seen, ok) ==
    /\ id \in DOMAIN panels
    /\ seen \in panels[id].listing
    /\ PanelStep([panels EXCEPT ![id] = AfterList(KindOf(id), @, seen, ok)],
                 "listCompletes", id)

\* The user picks another entry of the panel's workspace select.
SelectWorkspace(id, w) ==
    /\ id \in DOMAIN panels
    /\ w # panels[id].workspaceId
    /\ w = "" \/ \E i \in DOMAIN panels[id].workspaces : panels[id].workspaces[i] = w
    /\ PanelStep([panels EXCEPT ![id] = AfterSelect(KindOf(id), @, w)],
                 "selectWorkspace", [panel |-> id, workspace |-> w])

\* The workspace data asked for w arrives.
LoadCompletes(id, w, ok) ==
    /\ id \in DOMAIN panels
    /\ w \in panels[id].loading
    /\ PanelStep([panels EXCEPT ![id] = AfterLoad(KindOf(id), @, w, ok)],
                 "loadCompletes", [panel |-> id, workspace |-> w])

\* The save button of the i-th message, a workspace being selected and the
\* user entering `title`: handleSaveResource, handleSaveToWorkspace up to
\* their await.
SaveResource(id, i, title) ==
    /\ id \in DOMAIN panels
    /\ i \in DOMAIN panels[id].messages
    /\ panels[id].workspaceId # ""
    /\ Cardinality({r \in requests : r.from = "save"}) < MaxSaves
    /\ requests' = requests \cup
            {[panel |-> id, live |-> TRUE, from |-> "save", history |-> <<>>,
              sent |-> SaveCall(KindOf(id), panels[id].workspaceId, title,
                                panels[id].messages[i])]}
    /\ lastOp' = [op  |-> "saveResource",
                  arg |-> [panel |-> id, tag |-> TagOf(KindOf(id)), title |-> title,
                           content |-> panels[id].messages[i]]]
    /\ UNCHANGED <<user, windows, activeWindowId, frames, now, panels, call, buttonDown, auth>>

\* The save r is answered: an alert, or setError in the chat panel.
SaveCompletes(r, ok) ==
    /\ r \in requests
    /\ r.from = "save"
    /\ requests' = requests \ {r}
    /\ panels' = IF ~ok /\ r.live /\ KindOf(r.panel) = "chat"
                 THEN [panels EXCEPT ![r.panel].error =
                          Str(<<"Failed", "to", "save", "resource">>)]
                 ELSE panels
    /\ lastOp' = [op |-> "saveCompletes", arg |-> r.panel]
    /\ UNCHANGED <<user, windows, activeWindowId, frames, now, call, buttonDown, auth>>

----------------------------------------------------------------------------
(* An apiService method on its own *)

\* A method is called and axios meets the outcome.
ApiCall(method, outcome) ==
    /\ call.state \in {"none", "settled"}
    /\ call' = [method |-> method, outcome |-> outcome, state |-> "pending",
                result |-> Null]
    /\ lastOp' = [op |-> "apiCall", arg |-> method]
    /\ UNCHANGED <<user, windows, activeWindowId, frames, now, panels, requests,
                   buttonDown, auth>>

\* The promise the method returned settles.
ApiSettle ==
    /\ call.state = "pending"
    /\ call' = [call EXCEPT !.state = "settled",
                            !.result = Settle(call.method, call.outcome)]
    /\ lastOp' = [op |-> "apiSettle", arg |-> call.method]
    /\ UNCHANGED <<user, windows, activeWindowId, frames, now, panels, requests,
                   buttonDown, auth>>

----------------------------------------------------------------------------
(* Specifications *)

\* The desktop as the user drives it: icons, taskbar, frame controls, pointer.
Next ==
    \/ handleAuthSubmit
    \/ Tick
    \/ handleLogout
    \/ \E type \in Types : openWindow(type)
    \/ \E id \in Ids(windows) : TaskbarClick(id)
    \/ \E id \in Ids(windows) : MinimizeClick(id)
    \/ \E id \in Ids(windows) : MaximizeClick(id)
    \/ \E id \in Ids(windows) : CloseClick(id)
    \/ \E id \in Ids(windows) : TitleDoubleClick(id)
    \/ \E id \in Ids(windows), p \in Pointers : TitleMouseDown(id, p)
    \/ \E id \in Ids(windows), p \in Pointers : BodyMouseDown(id, p)
    \/ \E id \in Ids(windows), p \in Pointers : ResizerMouseDown(id, p)
    \/ \E p \in Pointers : Gesturing /\ MouseMove(p)
    \/ Gesturing /\ MouseUp

Spec == Init /\ [][Next]_vars

\* The host's operations as an interface: any caller, any argument.
HostNext ==
    \/ handleAuthSubmit
    \/ Tick
    \/ handleLogout
    \/ \E type \in Types : openWindow(type)
    \/ \E id \in IdInputs : bringToFront(id)
    \/ \E id \in IdInputs : closeWindow(id)
    \/ \E id \in IdInputs : minimizeWindow(id)
    \/ \E id \in IdInputs : maximizeWindow(id)
    \/ \E id \in IdInputs : restoreWindow(id)
    \/ \E id \in IdInputs, pos \in HostPositions : moveWindow(id, pos)
    \/ \E id \in IdInputs, size \in HostSizes : resizeWindow(id, size)

HostSpec == Init /\ [][HostNext]_vars

\* One window, its geometry driven both by direct move/resize calls and by
\* the gestures of its frame.
GeometryNext ==
    \/ handleAuthSubmit
    \/ openWindow("chat")
    \/ \E id \in Ids(windows) : maximizeWindow(id)
    \/ \E id \in Ids(windows), pos \in HostPositions : moveWindow(id, pos)
    \/ \E id \in Ids(windows), size \in HostSizes : resizeWindow(id, size)
    \/ \E id \in Ids(windows), p \in Pointers : TitleMouseDown(id, p)
    \/ \E id \in Ids(windows), p \in Pointers : ResizerMouseDown(id, p)
    \/ \E p \in Pointers : Gesturing /\ MouseMove(p)
    \/ Gesturing /\ MouseUp

GeometrySpec == Init /\ [][GeometryNext]_vars

\* The pointer alone: every pointer-down is followed by a pointer-up before
\* the next pointer-down, the pointer moves at any time, and the maximize
\* control is operated from the keyboard at any time.
GestureNext ==
    \/ handleAuthSubmit
    \/ \E type \in Types : openWindow(type)
    \/ \E id \in Ids(windows) : MaximizeClick(id)
    \/ \E id \in Ids(windows), p \in Pointers : ~buttonDown /\ TitleMouseDown(id, p)
    \/ \E id \in Ids(windows), p \in Pointers : ~buttonDown /\ BodyMouseDown(id, p)
    \/ \E id \in Ids(windows), p \in Pointers : ~buttonDown /\ ResizerMouseDown(id, p)
    \/ \E p \in Pointers : MouseMove(p)
    \/ buttonDown /\ MouseUp

GestureSpec == Init /\ [][GestureNext]_vars

\* Windows closed, and the list reset, at any moment of a drag or resize;
\* the pointer keeps moving and is released afterwards.
CloseNext ==
    \/ handleAuthSubmit
    \/ handleLogout
    \/ \E type \in Types : openWindow(type)
    \/ \E id \in Ids(windows) : closeWindow(id)
    \/ \E id \in Ids(windows), p \in Pointers : ~buttonDown /\ TitleMouseDown(id, p)
    \/ \E id \in Ids(windows), p \in Pointers : ~buttonDown /\ ResizerMouseDown(id, p)
    \/ \E p \in Pointers : MouseMove(p)
    \/ MouseUp

CloseSpec == Init /\ [][CloseNext]_vars

\* The types of a chat window and of a tool window
PanelTypes == {"chat"} \cup ToolIds

\* Messages of the first workspace, which a panel selects by itself, saved
\* as resources from a chat panel and from a tool panel.
SaveNext ==
    \/ handleAuthSubmit
    \/ \E type \in PanelTypes : openWindow(type)
    \/ \E id \in DOMAIN panels, seen \in {""} \cup Range(Workspaces) :
            ListCompletes(id, seen, TRUE)
    \/ \E id \in DOMAIN panels, w \in Range(Workspaces) : LoadCompletes(id, w, TRUE)
    \/ \E id \in DOMAIN panels, i \in 1..MaxMessages, title \in Titles :
            SaveResource(id, i, title)
    \/ \E r \in requests, ok \in BOOLEAN : SaveCompletes(r, ok)

SaveSpec == Init /\ [][SaveNext]_vars

\* One chat panel whose workspace select is operated while workspace data
\* is on its way; the backend answers every request.
WorkspaceNext ==
    \/ handleAuthSubmit
    \/ openWindow("chat")
    \/ \E id \in DOMAIN panels, seen \in {""} \cup Range(Workspaces) :
            ListCompletes(id, seen, TRUE)
    \/ \E id \in DOMAIN panels, w \in {""} \cup Range(Workspaces) : SelectWorkspace(id, w)
    \/ \E id \in DOMAIN panels, w \in Range(Workspaces) : LoadCompletes(id, w, TRUE)

WorkspaceSpec == Init /\ [][WorkspaceNext]_vars

\* One chat panel: queries are sent while workspaces are selected and their
\* data arrives.
ChatNext ==
    \/ handleAuthSubmit
    \/ openWindow("chat")
    \/ \E id \in DOMAIN panels, seen \in {""} \cup Range(Workspaces) :
            ListCompletes(id, seen, TRUE)
    \/ \E id \in DOMAIN panels, w \in {""} \cup Range(Workspaces) : SelectWorkspace(id, w)
    \/ \E id \in DOMAIN panels, w \in Range(Workspaces) : LoadCompletes(id, w, TRUE)
    \/ \E id \in DOMAIN panels : SendMessage(id)
    \/ \E r \in requests, outcome \in QueryOutcomes : QueryCompletes(r, outcome)

ChatSpec == Init /\ [][ChatNext]_vars

\* A chat panel and a tool panel send queries; every query in flight is
\* answered in the end, with one outcome or another.
LoadingNext ==
    \/ handleAuthSubmit
    \/ \E type \in PanelTypes : openWindow(type)
    \/ \E id \in DOMAIN panels : SendMessage(id)
    \/ \E id \in DOMAIN panels : ToolSend(id)
    \/ \E r \in requests, outcome \in PayloadOutcomes : QueryCompletes(r, outcome)
    \/ \E r \in requests, outcome \in PayloadOutcomes : ToolQueryCompletes(r, outcome)

QueryAnswered ==
    \E r \in requests, outcome \in PayloadOutcomes :
        QueryCompletes(r, outcome) \/ ToolQueryCompletes(r, outcome)

LoadingSpec == Init /\ [][LoadingNext]_vars /\ WF_vars(QueryAnswered)

\* Startup, login and logout step by step; the desktop, with its logout
\* button, is shown when a user is set and the boot screen is not.
AuthNext ==
    \/ AuthSubmit
    \/ \E ok \in BOOLEAN : LoginCompletes(ok)
    \/ BootDone
    \/ \E ok \in BOOLEAN : GetMeCompletes(ok)
    \/ ~auth.isLoading /\ handleLogout
    \/ \E type \in Types : ~auth.isLoading /\ openWindow(type)

AuthSpec == AuthInit /\ [][AuthNext]_vars

\* Chat queries in flight while windows are opened, hidden, shown and closed.
PanelNext ==
    \/ handleAuthSubmit
    \/ handleLogout
    \/ \E type \in Types : openWindow(type)
    \/ \E id \in IdInputs : closeWindow(id)
    \/ \E id \in IdInputs : minimizeWindow(id)
    \/ \E id \in IdInputs : restoreWindow(id)
    \/ \E id \in DOMAIN panels : SendMessage(id)
    \/ \E r \in requests, outcome \in QueryOutcomes : QueryCompletes(r, outcome)

PanelSpec == Init /\ [][PanelNext]_vars

\* Every method of the model called with every outcome of the model.
ApiNext ==
    \/ \E method \in Methods, outcome \in Outcomes : ApiCall(method, outcome)
    \/ ApiSettle

ApiSpec == Init /\ [][ApiNext]_vars

\* Windows are opened, placed by the host, and double-clicked on their title
\* bars.
ClickNext ==
    \/ handleAuthSubmit
    \/ Tick
    \/ \E type \in Types : openWindow(type)
    \/ \E id \in IdInputs, pos \in HostPositions : moveWindow(id, pos)
    \/ \E id \in IdInputs, size \in HostSizes : resizeWindow(id, size)
    \/ \E id \in Ids(windows), p \in Pointers : TitleDoubleClickGesture(id, p)

ClickSpec == Init /\ [][ClickNext]_vars

\* Three window types, so that two records can remain after a close: the
\* operations that create, remove and focus.
FocusTypes == Types \cup {"research"}

FocusNext ==
    \/ handleAuthSubmit
    \/ handleLogout
    \/ \E type \in FocusTypes : openWindow(type)
    \/ \E id \in IdInputs : bringToFront(id)
    \/ \E id \in IdInputs : closeWindow(id)
    \/ \E id \in IdInputs : minimizeWindow(id)

FocusSpec == Init /\ [][FocusNext]_vars

\* An id that matches no record: every real id ends in "-" and a time stamp.
AbsentId == "ghost"

\* The host's operations called with an id that matches no record, between
\* calls that build and focus a list.
AbsentIdNext ==
    \/ handleAuthSubmit
    \/ \E type \in Types : openWindow(type)
    \/ \E id \in IdInputs : bringToFront(id)
    \/ \E id \in IdInputs : closeWindow(id)
    \/ bringToFront(AbsentId)
    \/ closeWindow(AbsentId)
    \/ minimizeWindow(AbsentId)
    \/ maximizeWindow(AbsentId)
    \/ restoreWindow(AbsentId)
    \/ \E pos \in HostPositions : moveWindow(AbsentId, pos)
    \/ \E size \in HostSizes : resizeWindow(AbsentId, size)

AbsentIdSpec == Init /\ [][AbsentIdNext]_vars

\* Types a caller of openWindow passes: those of Types and a tool id that is
\* an inherited property name.
OpenTypes == Types \cup InheritedKeys

\* Windows are opened, minimized and closed.
OpenNext ==
    \/ handleAuthSubmit
    \/ \E type \in OpenTypes : openWindow(type)
    \/ \E id \in IdInputs : minimizeWindow(id)
    \/ \E id \in IdInputs : closeWindow(id)

OpenSpec == Init /\ [][OpenNext]_vars

----------------------------------------------------------------------------
(* Properties *)

\* The step just taken is the handler `op` (Tick leaves lastOp as it was).
Did(op) == lastOp'.op = op /\ now' = now

Geometry(win) == <<win.x, win.y, win.width, win.height>>

NoTwoOfAType(ws) == \A i, j \in DOMAIN ws : ws[i].type = ws[j].type => i = j

\* C1: whatever host operations ran, no two records of the list have the same
\* type, and opening a type that has a record leaves the length of the list
\* as it was.
C1_OneRecordPerType ==
    /\ [](NoTwoOfAType(windows))
    /\ [][(Did("openWindow") /\ \E i \in DOMAIN windows : windows[i].type = lastOp'.arg)
            => Len(windows') = Len(windows)]_vars

\* C1 witness: the type just opened is that of the first of two records, so
\* the call found its record instead of appending one.
C1_Witness ==
    /\ lastOp.op = "openWindow"
    /\ Len(windows) = 2
    /\ windows[1].type = lastOp.arg

\* C2: bringToFront(id) of a record in the list makes its zIndex strictly
\* greater than every other record's (so it is the maximum), makes id the
\* focused id, and changes no other record's zIndex.
C2_FocusRaisesToTop ==
    [][\A i \in DOMAIN windows :
          (Did("bringToFront") /\ windows[i].id = lastOp'.arg)
          => /\ Len(windows') = Len(windows)
             /\ activeWindowId' = windows[i].id
             /\ windows'[i].zIndex = MaxZOf(windows')
             /\ \A j \in DOMAIN windows \ {i} :
                   /\ windows'[j].zIndex < windows'[i].zIndex
                   /\ windows'[j].zIndex = windows[j].zIndex]_vars

\* C2 witness: the first of two records was brought to the front and is now
\* above the record created after it.
C2_Witness ==
    /\ lastOp.op = "bringToFront"
    /\ Len(windows) = 2
    /\ windows[1].id = lastOp.arg
    /\ windows[1].zIndex > windows[2].zIndex
    /\ activeWindowId = lastOp.arg

C4_HostResizeClamps ==
    [][\A i \in DOMAIN windows :
          (Did("resizeWindow") /\ windows[i].id = lastOp'.arg)
          => /\ windows'[i].width >= MinWidth
             /\ windows'[i].height >= MinHeight]_vars

\* C4 amended: a pointer-move of a resize gesture stores a width and a height
\* that are not below the floor, however far the pointer went back.
C4_GestureClampsToFloor ==
    [][\A i \in DOMAIN windows :
          (/\ Did("mouseMove")
           /\ frames[windows[i].id].resizing
           /\ ~windows[i].maximized)
          => /\ windows'[i].width >= MinWidth
             /\ windows'[i].height >= MinHeight]_vars

\* C4 witness: a resize gesture that started from a larger window has been
\* stopped at the floor in both dimensions.
C4_Witness ==
    /\ lastOp.op = "mouseMove"
    /\ \E i \in DOMAIN windows :
          /\ frames[windows[i].id].resizing
          /\ ~windows[i].maximized
          /\ frames[windows[i].id].resizeStart[3] > MinWidth
          /\ frames[windows[i].id].resizeStart[4] > MinHeight
          /\ windows[i].width = MinWidth
          /\ windows[i].height = MinHeight

C6_ReopenChangesOnlyMinimizedAndZ ==
    [][(Did("openWindow") /\ \E i \in DOMAIN windows : windows[i].type = lastOp'.arg)
          => /\ Len(windows') = Len(windows)
             /\ \A i \in DOMAIN windows :
                   IF windows[i].type = lastOp'.arg
                   THEN /\ windows'[i].minimized = FALSE
                        /\ windows'[i].zIndex = MaxZOf(windows) + 1
                        /\ windows'[i].id = windows[i].id
                        /\ windows'[i].type = windows[i].type
                        /\ windows'[i].title = windows[i].title
                        /\ Geometry(windows'[i]) = Geometry(windows[i])
                        /\ windows'[i].maximized = windows[i].maximized
                   ELSE windows'[i] = windows[i]]_vars

\* C6 witness: open A, maximize A, open B, open A: two records, A still
\* maximized and now on top.
C6_Witness ==
    /\ lastOp.op = "openWindow"
    /\ Len(windows) = 2
    /\ windows[1].type = lastOp.arg
    /\ windows[1].maximized
    /\ windows[1].zIndex = MaxZOf(windows)
    /\ windows[1].zIndex > windows[2].zIndex

\* C7 as stated: after openWindow appended a record, that record is the
\* focused window.
C7_NewWindowIsFocused ==
    [][(Did("openWindow") /\ Len(windows') = Len(windows) + 1)
          => activeWindowId' = windows'[Len(windows')].id]_vars

\* C8 as stated: after openWindow(type) for a type that has a record, that
\* record is not minimized and is the focused window.
C8_ReopenedWindowIsFocused ==
    [][\A i \in DOMAIN windows :
          (Did("openWindow") /\ windows[i].type = lastOp'.arg)
          => /\ ~windows'[i].minimized
             /\ activeWindowId' = windows[i].id]_vars

\* C9 as stated: the focused id never names a minimized record, and after
\* minimizeWindow(id) the focused id is not id.
C9_MinimizedNeverFocused ==
    /\ \A i \in DOMAIN windows :
          windows[i].id = activeWindowId => ~windows[i].minimized
    /\ lastOp.op = "minimizeWindow" => activeWindowId # lastOp.arg

\* The handlers after which a window is meant to hold the focus.
FocusProducing ==
    {"openWindow", "bringToFront", "maximizeWindow", "restoreWindow", "closeWindow"}

\* C10 as stated: after a focus-producing action, when some window is focused,
\* the focused record's zIndex is the maximum of the list.
C10_FocusedIsTopmost ==
    (lastOp.op \in FocusProducing /\ Present(windows, activeWindowId))
        => WinOf(windows, activeWindowId).zIndex = MaxZOf(windows)

\* C11: whenever a step changes the window list so that the id focused before
\* the step is no longer in it and the list is not empty, the focused id after
\* the step is the id of the last record of the list.
C11_AutoFocusLastRemaining ==
    [][(/\ windows' # windows
        /\ Len(windows') > 0
        /\ ~Present(windows', activeWindowId))
       => activeWindowId' = windows'[Len(windows')].id]_vars

\* Three windows were opened, one was just closed, and of the two that remain
\* the last one is focused.
C11_Witness ==
    /\ lastOp.op = "closeWindow"
    /\ ~Present(windows, lastOp.arg)
    /\ Len(windows) = 2
    /\ \A i \in DOMAIN windows : ~windows[i].minimized
    /\ activeWindowId = windows[2].id

\* C12 as stated: closing the focused window leaves the focused id null, even
\* when other records remain; closing another window leaves the focused id
\* unchanged.
C12_CloseOfFocusedLeavesNoFocus ==
    [][Did("closeWindow") =>
        activeWindowId' = IF activeWindowId = lastOp'.arg THEN Null
                          ELSE activeWindowId]_vars

\* C12, amended: closing the focused window leaves the focus on the last
\* remaining record, and null only when no record remains; closing another
\* window leaves the focused id unchanged.
C12_CloseOfFocusedRefocusesLast ==
    [][Did("closeWindow") =>
        activeWindowId' = IF activeWindowId # lastOp'.arg THEN activeWindowId
                          ELSE IF Len(windows') = 0 THEN Null
                          ELSE windows'[Len(windows')].id]_vars

\* The first of two windows was just closed; the second, never raised since
\* its creation, holds the focus.
C12_Witness ==
    /\ lastOp.op = "closeWindow"
    /\ ~Present(windows, lastOp.arg)
    /\ Len(windows) = 1
    /\ windows[1].x = BaseX + CascadeStep
    /\ windows[1].zIndex = 2
    /\ activeWindowId = windows[1].id

\* C13: in every settled state the focused id is null or the id of a record
\* of the list; in particular it is null whenever the list is empty.
C13_FocusedIsNullOrPresent ==
    /\ activeWindowId = Null \/ Present(windows, activeWindowId)
    /\ Len(windows) = 0 => activeWindowId = Null

\* C14: focus, close, minimize, maximize, restore, move or resize called with
\* an id that matches no record leaves the window list and the focused id
\* unchanged.
C14_AbsentIdIsNoOp ==
    [][(lastOp'.arg = AbsentId /\ ~Present(windows, AbsentId))
       => (windows' = windows /\ activeWindowId' = activeWindowId)]_vars

\* The index of the record with this id
IndexOf(ws, id) == CHOOSE i \in DOMAIN ws : ws[i].id = id

\* The record at index i is strictly above every other record
IsTop(ws, i) == \A j \in DOMAIN ws : j # i => ws[j].zIndex < ws[i].zIndex

\* C15: maximize(id) on a present id flips the record's maximized flag, clears
\* its minimized flag, puts it above every other record and focuses it,
\* whatever the record's flags and the focus were before.
C15_MaximizeFlipsRaisesFocuses ==
    [][(Did("maximizeWindow") /\ Present(windows, lastOp'.arg)) =>
        LET i == IndexOf(windows, lastOp'.arg) IN
            /\ Len(windows') = Len(windows)
            /\ windows'[i].id = lastOp'.arg
            /\ windows'[i].maximized = ~windows[i].maximized
            /\ ~windows'[i].minimized
            /\ windows'[i].zIndex = MaxZOf(windows')
            /\ IsTop(windows', i)
            /\ activeWindowId' = lastOp'.arg]_vars

\* A window that was not the last one opened has just been maximized: it is
\* maximized, visible, on top and focused.
C15_Witness ==
    /\ lastOp.op = "maximizeWindow"
    /\ Len(windows) = 2
    /\ windows[1].id = lastOp.arg
    /\ windows[1].maximized
    /\ ~windows[1].minimized
    /\ IsTop(windows, 1)
    /\ windows[2].minimized
    /\ activeWindowId = windows[1].id

\* C16: restore(id) on a present id clears the record's minimized flag, puts
\* it above every other record and focuses it; its maximized flag and its
\* geometry stay as they were.
C16_RestoreShowsRaisesFocuses ==
    [][(Did("restoreWindow") /\ Present(windows, lastOp'.arg)) =>
        LET i == IndexOf(windows, lastOp'.arg) IN
            /\ Len(windows') = Len(windows)
            /\ windows'[i].id = lastOp'.arg
            /\ ~windows'[i].minimized
            /\ windows'[i].zIndex = MaxZOf(windows')
            /\ IsTop(windows', i)
            /\ activeWindowId' = lastOp'.arg
            /\ windows'[i].maximized = windows[i].maximized
            /\ Geometry(windows'[i]) = Geometry(windows[i])]_vars

\* A maximized window that was moved by the host has just been restored: it is
\* still maximized and still where it was moved to, visible, on top and focused.
C16_Witness ==
    /\ lastOp.op = "restoreWindow"
    /\ Len(windows) = 2
    /\ windows[1].id = lastOp.arg
    /\ windows[1].maximized
    /\ <<windows[1].x, windows[1].y>> \in HostPositions
    /\ ~windows[1].minimized
    /\ IsTop(windows, 1)
    /\ activeWindowId = windows[1].id

\* The operations that assign a zIndex
ZAssigning == {"openWindow", "bringToFront", "maximizeWindow", "restoreWindow"}

\* The record an operation with this argument addresses: by type for
\* openWindow, by id for the others.
Addresses(win, op, arg) == IF op = "openWindow" THEN win.type = arg ELSE win.id = arg

\* C17: creating a record, re-opening a type, focus, maximize and restore set
\* the record's zIndex to one more than the maximum zIndex of the list at the
\* call, and no other zIndex changes; in every state the zIndexes of the list
\* are pairwise different and at least 1.
C17_ZIndexIsMaxPlusOne ==
    /\ [](\A i, j \in DOMAIN windows :
            /\ windows[i].zIndex >= 1
            /\ i # j => windows[i].zIndex # windows[j].zIndex)
    /\ [][(lastOp'.op \in ZAssigning /\ now' = now) =>
            \A i \in DOMAIN windows' :
                IF Addresses(windows'[i], lastOp'.op, lastOp'.arg)
                THEN windows'[i].zIndex = MaxZOf(windows) + 1
                ELSE i \in DOMAIN windows /\ windows'[i].zIndex = windows[i].zIndex]_vars

\* The first of two windows was raised by a focus call: it is one above the
\* second, which kept the zIndex it was created with.
C17_Witness ==
    /\ lastOp.op = "bringToFront"
    /\ Len(windows) = 2
    /\ windows[1].id = lastOp.arg
    /\ windows[2].zIndex = 2
    /\ windows[1].zIndex = 3

\* C18: the ids of the list are pairwise distinct in every state, and a
\* record keeps its id and its type from its creation to its close: a step
\* that removes nothing leaves every record's id and type in place, and a step
\* that removes records leaves only records that were in the list, each with
\* the type it had.
C18_IdsDistinctAndStable ==
    /\ [](\A i, j \in DOMAIN windows : i # j => windows[i].id # windows[j].id)
    /\ [][/\ Len(windows') >= Len(windows) =>
               \A i \in DOMAIN windows :
                   /\ windows'[i].id = windows[i].id
                   /\ windows'[i].type = windows[i].type
          /\ Len(windows') < Len(windows) =>
               \A j \in DOMAIN windows' : \E i \in DOMAIN windows :
                   /\ windows'[j].id = windows[i].id
                   /\ windows'[j].type = windows[i].type
          /\ \A i \in DOMAIN windows, j \in DOMAIN windows' :
               windows'[j].id = windows[i].id => windows'[j].type = windows[i].type]_vars

\* Two windows created at the same clock reading, the first of them since
\* minimized, maximized and moved: their ids differ by the type alone.
C18_Witness ==
    /\ Len(windows) = 2
    /\ windows[1].id = NewId(windows[1].type, 0)
    /\ windows[2].id = NewId(windows[2].type, 0)
    /\ windows[1].type # windows[2].type
    /\ windows[1].minimized
    /\ windows[1].maximized
    /\ lastOp.op = "moveWindow"
    /\ lastOp.arg = windows[1].id

\* C19: open(type) of a type that has no record appends a record of that
\* type; for a type of the default table the record has that entry's title,
\* width and height, for any other type it has the title 'Window', width 680
\* and height 480.
C19_OpenTakesTableOrGenericDefaults ==
    [][(Did("openWindow") /\ ~\E i \in DOMAIN windows : windows[i].type = lastOp'.arg) =>
        /\ Len(windows') = Len(windows) + 1
        /\ LET win == windows'[Len(windows')] IN
             /\ win.type = lastOp'.arg
             /\ IF lastOp'.arg \in DOMAIN DEFAULT_WINDOWS
                THEN /\ win.title = DEFAULT_WINDOWS[lastOp'.arg].title
                     /\ win.width = DEFAULT_WINDOWS[lastOp'.arg].width
                     /\ win.height = DEFAULT_WINDOWS[lastOp'.arg].height
                ELSE /\ win.title = "Window"
                     /\ win.width = 680
                     /\ win.height = 480]_vars

\* C20: a record that openWindow creates is at x = 180 + 30 * n and
\* y = 80 + 30 * n, n being the number of records in the list at the call,
\* minimized ones included, and it is neither minimized nor maximized.
C20_NewRecordCascades ==
    [][(Did("openWindow") /\ Len(windows') = Len(windows) + 1) =>
        LET win == windows'[Len(windows')] IN
            /\ win.type = lastOp'.arg
            /\ win.x = 180 + 30 * Len(windows)
            /\ win.y = 80 + 30 * Len(windows)
            /\ ~win.minimized
            /\ ~win.maximized]_vars

\* A third window was just created while the two before it were minimized: it
\* is two cascade steps from the base position.
C20_Witness ==
    /\ lastOp.op = "openWindow"
    /\ Len(windows) = 3
    /\ lastOp.arg = windows[3].type
    /\ windows[1].minimized
    /\ windows[2].minimized
    /\ \A i \in DOMAIN windows : windows[i].zIndex = i
    /\ windows[3].x = 240
    /\ windows[3].y = 140
    /\ ~windows[3].minimized

\* The ids of a list, in list order
IdSeq(ws) == [i \in DOMAIN ws |-> ws[i].id]

\* s is t with some elements left out, the others in the same order
RECURSIVE IsSubSeq(_, _)
IsSubSeq(s, t) ==
    IF s = <<>> THEN TRUE
    ELSE IF t = <<>> THEN FALSE
    ELSE IF Head(s) = Head(t) THEN IsSubSeq(Tail(s), Tail(t))
    ELSE IsSubSeq(s, Tail(t))

\* The clock reading in a record's id
CreatedAt(win) == CHOOSE t \in 0..(MaxTime + 1) : win.id = NewId(win.type, t)

\* C21: the list is in creation order in every state; a step either keeps the
\* ids of the list as they are, or appends one id at the end, or, for close
\* and logout only, leaves some ids out without reordering the others.
C21_ListKeepsCreationOrder ==
    /\ [](\A i, j \in DOMAIN windows : i < j => CreatedAt(windows[i]) <= CreatedAt(windows[j]))
    /\ [][\/ IdSeq(windows') = IdSeq(windows)
          \/ /\ Did("openWindow")
             /\ Len(windows') = Len(windows) + 1
             /\ SubSeq(IdSeq(windows'), 1, Len(windows)) = IdSeq(windows)
          \/ /\ Did("closeWindow") \/ Did("logout")
             /\ Len(windows') < Len(windows)
             /\ IsSubSeq(IdSeq(windows'), IdSeq(windows))]_vars

\* The first of two windows, created before the second, has been raised above
\* it, maximized, moved and resized, and is still the first of the list.
C21_Witness ==
    /\ Len(windows) = 2
    /\ CreatedAt(windows[1]) < CreatedAt(windows[2])
    /\ windows[1].zIndex > windows[2].zIndex
    /\ windows[1].maximized
    /\ <<windows[1].x, windows[1].y>> \in HostPositions
    /\ lastOp.op = "resizeWindow"
    /\ lastOp.arg = windows[1].id

\* C24: a pointer-down that starts a drag captures the pointer position minus
\* the window's top-left corner; the captured offset is then kept, and every
\* pointer-move of the drag puts the record at the pointer position minus it.
C24_DragKeepsCapturedOffset ==
    [][\A i \in DOMAIN windows :
        LET id == windows[i].id IN
          /\ (Did("titleMouseDown") /\ lastOp'.arg = id /\ ~windows[i].maximized)
                => /\ frames'[id].dragging
                   /\ \E p \in Pointers :
                        /\ Hits(windows[i], p)
                        /\ frames'[id].dragOffset
                             = <<p[1] - windows[i].x, p[2] - windows[i].y>>
          /\ (Did("mouseMove") /\ frames[id].dragging /\ ~windows[i].maximized)
                => /\ windows'[i].x = lastOp'.arg[1] - frames[id].dragOffset[1]
                   /\ windows'[i].y = lastOp'.arg[2] - frames[id].dragOffset[2]
                   /\ frames'[id].dragOffset = frames[id].dragOffset]_vars

\* The first window, at the base of the cascade, was grabbed at (250, 150) and
\* the pointer is now at (900, 580): the window is at (830, 510).
C24_Witness ==
    /\ lastOp.op = "mouseMove"
    /\ lastOp.arg = <<900, 580>>
    /\ Len(windows) >= 1
    /\ frames[windows[1].id].dragging
    /\ frames[windows[1].id].dragOffset = <<70, 70>>
    /\ <<windows[1].x, windows[1].y>> = <<830, 510>>

\* C25: a pointer-down on the resize handle captures the pointer position and
\* the record's width and height; every pointer-move of the resize sets
\* width = max(420, captured width + dx) and height = max(280, captured
\* height + dy), dx and dy counted from the captured pointer position, so the
\* width is at least 420 and the height at least 280.
C25_ResizeFromCapturedStart ==
    [][\A i \in DOMAIN windows :
        LET id == windows[i].id
            rs == frames[id].resizeStart
        IN
          /\ (Did("resizerMouseDown") /\ lastOp'.arg = id)
                => /\ frames'[id].resizing
                   /\ \E p \in Pointers :
                        frames'[id].resizeStart
                            = <<p[1], p[2], windows[i].width, windows[i].height>>
          /\ (Did("mouseMove") /\ frames[id].resizing /\ ~windows[i].maximized)
                => /\ windows'[i].width = Max2(420, rs[3] + (lastOp'.arg[1] - rs[1]))
                   /\ windows'[i].height = Max2(280, rs[4] + (lastOp'.arg[2] - rs[2]))
                   /\ windows'[i].width >= 420
                   /\ windows'[i].height >= 280
                   /\ frames'[id].resizeStart = rs]_vars

\* A resize started at (250, 150) from 760 x 520 and the pointer is now at
\* (900, 580): the size is the captured size plus the travel.
C25_Witness ==
    /\ lastOp.op = "mouseMove"
    /\ lastOp.arg = <<900, 580>>
    /\ Len(windows) >= 1
    /\ frames[windows[1].id].resizing
    /\ frames[windows[1].id].resizeStart = <<250, 150, 760, 520>>
    /\ <<windows[1].width, windows[1].height>> = <<1410, 950>>

\* No frame is in a gesture mode, so none has its window listeners attached
Idle(fr) == \A id \in DOMAIN fr : ~fr[id].dragging /\ ~fr[id].resizing /\ ~Listening(fr, id)

\* C26: after a pointer-up no frame is dragging or resizing and no frame has
\* its move/up handlers attached; a pointer-move that occurs while no gesture
\* is active leaves the position and size of every record unchanged.
C26_PointerUpEndsGesture ==
    [][/\ Did("mouseUp") => Idle(frames')
       /\ (Did("mouseMove") /\ Idle(frames)) =>
            /\ Len(windows') = Len(windows)
            /\ \A i \in DOMAIN windows : Geometry(windows'[i]) = Geometry(windows[i])]_vars

\* The first window was dragged to (830, 510) and released; the pointer has
\* since moved back to (250, 150) and the window has stayed.
C26_Witness ==
    /\ lastOp.op = "mouseMove"
    /\ lastOp.arg = <<250, 150>>
    /\ ~buttonDown
    /\ Len(windows) >= 1
    /\ Idle(frames)
    /\ frames[windows[1].id].dragOffset = <<70, 70>>
    /\ <<windows[1].x, windows[1].y>> = <<830, 510>>

\* C27: when every pointer-down is followed by a pointer-up before the next
\* pointer-down, no frame is dragging and resizing at once and at most one
\* frame of the list is in a drag or resize mode.
C27_GesturesNeverOverlap ==
    /\ \A id \in DOMAIN frames : ~(frames[id].dragging /\ frames[id].resizing)
    /\ Cardinality({id \in DOMAIN frames : Listening(frames, id)}) <= 1

\* Of two windows, the second is being resized after the first was resized
\* and released.
C27_Witness ==
    /\ Len(windows) = 2
    /\ windows[1].width = 1410
    /\ ~Listening(frames, windows[1].id)
    /\ frames[windows[2].id].resizing
    /\ buttonDown

\* C28: a pointer-down on a rendered frame (title bar with its buttons, body
\* or resize handle), maximized or not, makes that window the focused one and
\* puts it above every other record.
C28_PointerDownFocuses ==
    [][(lastOp'.op \in PointerDownOps /\ now' = now) =>
        /\ Present(windows', lastOp'.arg)
        /\ LET i == IndexOf(windows', lastOp'.arg) IN
             /\ activeWindowId' = lastOp'.arg
             /\ windows'[i].zIndex = MaxZOf(windows')
             /\ windows'[i].zIndex > MaxZOf(windows)
             /\ IsTop(windows', i)]_vars

\* The maximized first window, which lay below the second, got a pointer-down
\* on its title bar: it is focused and on top, and no drag started.
C28_Witness ==
    /\ lastOp.op = "titleMouseDown"
    /\ Len(windows) = 2
    /\ lastOp.arg = windows[1].id
    /\ windows[1].maximized
    /\ ~frames[windows[1].id].dragging
    /\ activeWindowId = windows[1].id
    /\ IsTop(windows, 1)

\* The events of the pointer
PointerOps == PointerDownOps \cup {"mouseMove", "mouseUp"}

\* C29: a pointer-down on the title bar of a maximized window starts no drag,
\* no pointer-down reaches the resize handle of a maximized window, and no
\* pointer event changes the x, y, width or height of a maximized record,
\* gesture mode active or not.
C29_MaximizedIgnoresGestures ==
    [][/\ (Did("titleMouseDown") /\ WinOf(windows, lastOp'.arg).maximized)
            => /\ ~frames'[lastOp'.arg].dragging
               /\ ~frames'[lastOp'.arg].resizing
       /\ Did("resizerMouseDown") => ~WinOf(windows, lastOp'.arg).maximized
       /\ (lastOp'.op \in PointerOps /\ now' = now)
            => \A i \in DOMAIN windows :
                  windows[i].maximized => Geometry(windows'[i]) = Geometry(windows[i])]_vars

\* A window was maximized from the keyboard in the middle of a drag; the
\* pointer then moved to (900, 580) and the record is still where it was.
C29_Witness ==
    /\ lastOp.op = "mouseMove"
    /\ lastOp.arg = <<900, 580>>
    /\ Len(windows) >= 1
    /\ windows[1].maximized
    /\ frames[windows[1].id].dragging
    /\ frames[windows[1].id].dragOffset = <<70, 70>>
    /\ <<windows[1].x, windows[1].y>> = <<BaseX, BaseY>>

\* A record with its zIndex left out
NoZ(win) == [win EXCEPT !.zIndex = 0]

\* C30: a double click on the title bar, the pointer not moving, leaves what
\* one maximize(id) leaves: the maximized flag toggled once, every record's
\* x, y, width and height unchanged, the record on top and focused (the
\* zIndex values apart), and the frame not dragging.
C30_DoubleClickIsOneMaximize ==
    [][Did("titleDoubleClick") =>
        LET id == lastOp'.arg
            i  == IndexOf(windows, id)
            m  == RaiseUpdater(MaximizeUpdater(windows, id), id)
        IN  /\ Len(windows') = Len(windows)
            /\ windows'[i].maximized = ~windows[i].maximized
            /\ \A j \in DOMAIN windows :
                  /\ Geometry(windows'[j]) = Geometry(windows[j])
                  /\ NoZ(windows'[j]) = NoZ(m[j])
                  /\ j # i => windows'[j].zIndex = m[j].zIndex
            /\ IsTop(windows', i)
            /\ activeWindowId' = AutoFocus(m, id)
            /\ ~frames'[id].dragging
            /\ ~frames'[id].resizing
            /\ \A k \in DOMAIN frames : k # id => frames'[k] = frames[k]]_vars

\* The first window, at the base of the cascade, was double-clicked at
\* (250, 150): it is maximized and on top, the drag that its two pointer-downs
\* started has ended, and the record is where it was.
C30_Witness ==
    /\ lastOp.op = "titleDoubleClick"
    /\ Len(windows) = 2
    /\ lastOp.arg = windows[1].id
    /\ windows[1].maximized
    /\ IsTop(windows, 1)
    /\ frames[windows[1].id].dragOffset = <<70, 70>>
    /\ ~frames[windows[1].id].dragging
    /\ <<windows[1].x, windows[1].y>> = <<BaseX, BaseY>>

\* C23: the promise of every apiService method resolves, for every backend
\* outcome, to {success: true, data} or to {success: false, error} with error a
\* string; it never rejects.
C23_ApiAlwaysResolves ==
    call.state = "settled" =>
        /\ call.result.state = "resolved"
        /\ \/ /\ call.result.value.success
              /\ DOMAIN call.result.value = {"success", "data"}
           \/ /\ ~call.result.value.success
              /\ DOMAIN call.result.value = {"success", "error"}
              /\ call.result.value.error.type = "string"

C31_CloseEndsGesture ==
    [][/\ (Did("closeWindow") \/ Did("logout")) =>
            /\ DOMAIN frames' = Ids(windows')
            /\ \A id \in DOMAIN frames' : frames'[id] = frames[id]
       /\ (Did("mouseMove") \/ Did("mouseUp")) =>
            /\ IdSeq(windows') = IdSeq(windows)
            /\ \A i \in DOMAIN windows :
                  ~Listening(frames, windows[i].id) => windows'[i] = windows[i]
            /\ ~Gesturing => windows' = windows]_vars

\* The pointer went down on a window, the window was closed with the button
\* still down, and the pointer has moved since: one other window is open.
C31_Witness ==
    /\ lastOp.op = "mouseMove"
    /\ buttonDown
    /\ ~Gesturing
    /\ Len(windows) = 1

\* What maximizeWindow(id) makes of the list
Maximized(ws, id) == RaiseUpdater(MaximizeUpdater(ws, id), id)

\* C32: a maximize(id) step leaves x, y, width and height of every record as
\* they were; and from every reachable list, maximize(id) applied twice gives
\* every record the maximized flag and the geometry it had before.
C32_MaximizeKeepsGeometry ==
    /\ [](\A id \in Ids(windows) :
            LET twice == Maximized(Maximized(windows, id), id)
            IN  /\ Len(twice) = Len(windows)
                /\ \A i \in DOMAIN windows :
                      /\ Geometry(twice[i]) = Geometry(windows[i])
                      /\ twice[i].maximized = windows[i].maximized)
    /\ [][Did("maximizeWindow") =>
            /\ Len(windows') = Len(windows)
            /\ \A i \in DOMAIN windows :
                  Geometry(windows'[i]) = Geometry(windows[i])]_vars

\* The first window was resized to 1410 wide, maximized, and maximized again:
\* it is back to normal with the size it was given.
C32_Witness ==
    /\ lastOp.op = "maximizeWindow"
    /\ Len(windows) >= 1
    /\ lastOp.arg = windows[1].id
    /\ ~windows[1].maximized
    /\ windows[1].width = 1410

\* What restoreWindow(id) makes of the list
Restored(ws, id) == RaiseUpdater(RestoreUpdater(ws, id), id)

\* C33: a minimize(id) step on a present id leaves the list as it was but for
\* the minimized flag of that record, which is set: the record keeps its
\* place, id, type, geometry, maximized flag and zIndex; the frame of a
\* minimized record produces no output; and from every reachable list,
\* minimize(id) followed by restore(id) shows the record with the geometry and
\* the maximized flag it had.
C33_MinimizeOnlySetsFlag ==
    /\ [](\A id \in Ids(windows) :
            LET i    == IndexOf(windows, id)
                back == Restored(MinimizeUpdater(windows, id), id)
            IN  /\ windows[i].minimized => ~Rendered(id)
                /\ Len(back) = Len(windows)
                /\ ~back[i].minimized
                /\ Geometry(back[i]) = Geometry(windows[i])
                /\ back[i].maximized = windows[i].maximized)
    /\ [][(Did("minimizeWindow") /\ Present(windows, lastOp'.arg)) =>
            LET i == IndexOf(windows, lastOp'.arg)
            IN  /\ Len(windows') = Len(windows)
                /\ windows'[i] = [windows[i] EXCEPT !.minimized = TRUE]
                /\ \A j \in DOMAIN windows : j # i => windows'[j] = windows[j]]_vars

\* A maximized window that the host moved and resized has just been
\* minimized: it is in the list, hidden, still maximized, with its geometry.
C33_Witness ==
    /\ lastOp.op = "minimizeWindow"
    /\ Len(windows) = 2
    /\ windows[1].id = lastOp.arg
    /\ windows[1].minimized
    /\ ~Rendered(windows[1].id)
    /\ windows[1].maximized
    /\ Geometry(windows[1]) = <<0, 0, 10, 10>>

\* C34: windows being only opened, minimized and closed, never moved, no two
\* records of the list are at the same (x, y).
C34_OpenWindowsStagger ==
    \A i, j \in DOMAIN windows :
        <<windows[i].x, windows[i].y>> = <<windows[j].x, windows[j].y>> => i = j

\* C35: when a panel saves a message as a resource, the request it sends has
\* as title the title the user entered, as content the content of the saved
\* message, and as type the panel's tag.
C35_SavePassesFieldsThrough ==
    [][Did("saveResource") =>
        \E r \in requests' :
            /\ r.from = "save"
            /\ r.panel = lastOp'.arg.panel
            /\ r.sent.body = [type    |-> lastOp'.arg.tag,
                              title   |-> lastOp'.arg.title,
                              content |-> lastOp'.arg.content]]_vars

\* The taskbar: one button per record of the list, keyed by the record's id
TaskbarEntries(ws) == [i \in DOMAIN ws |-> ws[i].id]

\* C36: a click on the taskbar entry of a record restores it when it is
\* minimized (it is then shown, focused and above every other record);
\* otherwise minimizes it when it is the focused one; otherwise focuses and
\* raises it. So the record of a minimized entry is never minimized after the
\* click; and the taskbar has one entry for each record, no id twice.
C36_TaskbarClickDecides ==
    /\ [](/\ Len(TaskbarEntries(windows)) = Len(windows)
          /\ Range(TaskbarEntries(windows)) = Ids(windows)
          /\ Cardinality(Ids(windows)) = Len(windows))
    /\ [][Did("taskbarClick") =>
            LET id == lastOp'.arg
                i  == IndexOf(windows, id)
            IN  IF windows[i].minimized
                THEN /\ windows' = Restored(windows, id)
                     /\ ~windows'[i].minimized
                     /\ IsTop(windows', i)
                     /\ activeWindowId' = id
                ELSE IF activeWindowId = id
                THEN /\ windows' = MinimizeUpdater(windows, id)
                     /\ windows'[i].minimized
                ELSE /\ windows' = RaiseUpdater(windows, id)
                     /\ ~windows'[i].minimized
                     /\ IsTop(windows', i)
                     /\ activeWindowId' = id]_vars

\* The focused one of two windows was minimized by a click on its entry; the
\* other window is shown.
C36_Witness ==
    /\ lastOp.op = "taskbarClick"
    /\ Len(windows) = 2
    /\ \E i \in DOMAIN windows :
          /\ windows[i].id = lastOp.arg
          /\ windows[i].minimized
          /\ ~windows[3 - i].minimized

\* C37: in a chat panel with no workspace-data request in flight, the
\* transcript and the memory items are those of the selected workspace, and
\* empty when no workspace is selected.
C37_ShownDataIsOfSelectedWorkspace ==
    \A id \in DOMAIN panels :
        (KindOf(id) = "chat" /\ panels[id].loading = {}) =>
            IF panels[id].workspaceId = ""
            THEN panels[id].messages = <<>> /\ panels[id].memoryItems = <<>>
            ELSE /\ panels[id].messages = StoredMessages(panels[id].workspaceId)
                 /\ panels[id].memoryItems = StoredMemory(panels[id].workspaceId)

\* C38: when a query of a mounted chat panel fails, by a non-success result
\* or by a rejection, the failure removes the pending user message, which is
\* the last of the transcript, and no other message; the transcript is then
\* the one the panel had just before the send.
C38_FailedSendRestoresTranscript ==
    [][(Did("queryCompletes") /\ lastOp'.arg.live /\ ~lastOp'.arg.ok) =>
        LET before == panels[lastOp'.arg.panel].messages
            after  == panels'[lastOp'.arg.panel].messages
        IN  /\ before # <<>>
            /\ before[Len(before)] = "user"
            /\ after = DropLast(before)
            /\ after = lastOp'.arg.history]_vars

\* The ids of the panels of a chat window and of a tool window opened at
\* time 0
LoadingPanels == {NewId(type, 0) : type \in PanelTypes}

\* A panel that is mounted and has its loading flag set
Busy(id) == id \in DOMAIN panels /\ panels[id].isLoading

\* C39: in the chat panel and in the tool panel, a query is issued only while
\* the panel's loading flag is clear, and, every query being answered in the
\* end, a loading flag that is set is cleared later, whatever the answer: a
\* success, a non-success result, a rejection, or a response without payload.
C39_LoadingFlagIsCleared ==
    /\ [][(Did("sendMessage") \/ Did("toolSend")) => ~panels[lastOp'.arg].isLoading]_vars
    /\ \A id \in LoadingPanels : Busy(id) ~> ~Busy(id)

\* The chat panel's half of C39 on its own
ChatLoadingFlagIsCleared == Busy(NewId("chat", 0)) ~> ~Busy(NewId("chat", 0))

\* C40: whenever a user is set, the token is in localStorage and on the API
\* client; and a step that sets the user does not come after a logout with no
\* successful login in between.
C40_UserHasTokenAndStaysLoggedOut ==
    /\ [](user => (auth.stored # Null /\ auth.header = auth.stored))
    /\ [][(~user /\ user') => ~auth.loggedOut]_vars

====
